---------------------------- MODULE Spec2Model ----------------------------
(***************************************************************************)
(* A model of eutils.c, the utility code of the echo clients and server:   *)
(*   - address_match / count_rows: the comparison of a datagram's sender   *)
(*     with the expected peer, for AF_INET and AF_XIA addresses;           *)
(*   - datagram_process_file / recv_write: the chunked transfer over a     *)
(*     datagram socket, with the 2 second select() timeout;                *)
(*   - stream_process_file / read_write: the same over a stream socket.    *)
(* assert() is modelled as compiled in (no NDEBUG): a failed assertion     *)
(* and exit(1) both end the process (pc = "aborted").                      *)
(***************************************************************************)
EXTENDS Integers, Sequences, FiniteSets

(***************************************************************************)
(* Bounds of the model.                                                    *)
(***************************************************************************)
\* rows of a struct xia_addr (XIA_NODES_MAX of the XIA headers, cut down)
MaxRows == 3
\* longest source file, in bytes
MaxFile == 4
\* largest chunk_size
MaxChunk == 2
\* largest checkpoint interval (times)
MaxTimes == 2
\* longest input of copy_data, in bytes
MaxCopy == 5
\* sizeof(buf) of copy_data (2048 in the code, cut down)
CopyBuf == 2

\* sizeof(struct sockaddr_in): family 2, port 2, address 4, sin_zero 8 bytes
SizeofSockaddrIn == 16

VARIABLES
  \* ---- the transfer (datagram_process_file, stream_process_file) ----
  transport,    \* "datagram" | "stream": which process_file runs
  orig,         \* the source file's bytes
  chunk_size,   \* parameter chunk_size
  times,        \* parameter times: the checkpoint interval
  f,            \* parameter f: TRUE when a hook is supplied, FALSE for NULL
  srv,          \* parameter srv: the expected peer address (datagram)
  pc,           \* position of the process in the code
  pos,          \* read offset of orig
  eof,          \* feof(orig)
  bytes_read,   \* local bytes_read of the loop body
  count,        \* local count
  bytes_sent,   \* local bytes_sent
  copy,         \* the mirror file's bytes
  n_sent,       \* recv_write / read_write parameter n_sent
  out,          \* read_write: the bytes accumulated in out[0..n_read)
  final,        \* TRUE in the receive after the loop (lines 439-443, 480-484)
  \* ---- the socket and the peer ----
  rcvq,         \* datagram socket: the queue of received datagrams
  peer_in,      \* datagram peer: bytes received and not yet echoed
  forged,       \* a datagram from another sender has been injected
  echo,         \* stream socket: echoed bytes not yet read
  closed,       \* stream: the peer closed the connection
  \* ---- history ----
  since,        \* payloads sent since the last receive returned
  hooks,        \* calls of f since the last receive returned
  ckpts,        \* one record per call of recv_write / read_write
  netlost,      \* datagrams sent that the network lost before the peer
  fatal,        \* why the process ended, "" while it has not
  \* ---- a single call of address_match ----
  ma, mb,       \* its arguments (addr, expected); each carries its socklen
  mres,         \* "true" | "false" | "abort" | "none"
  mpc,          \* "idle" | "call" | "returned" | "aborted"
  \* ---- a single call of copy_data ----
  cpc,          \* "idle" | "read" | "write" | "check" | "returned" | "aborted"
  cfrom,        \* the bytes descriptor from has still to deliver
  camount,      \* local amount: what the last read() returned
  cbuf,         \* buf[0..amount) after the last read()
  cread,        \* every byte the reads have returned so far
  cto           \* every byte written to descriptor to so far

tvars == <<transport, orig, chunk_size, times, f, srv, pc, pos, eof,
           bytes_read, count, bytes_sent, copy, n_sent, out, final>>
nvars == <<rcvq, peer_in, forged, echo, closed>>
hvars == <<since, hooks, ckpts, netlost, fatal>>
mvars == <<ma, mb, mres, mpc>>
cvars == <<cpc, cfrom, camount, cbuf, cread, cto>>
vars == <<tvars, nvars, hvars, mvars, cvars>>

(***************************************************************************)
(* Address values.  A struct sockaddr with its socklen_t:                  *)
(*   family  sa_family                                                     *)
(*   len     the socklen passed with it                                    *)
(*   port, addr, pad   sin_port, sin_addr, sin_zero of a sockaddr_in       *)
(*   rows    sxia_addr.s_row[0..MaxRows) of a sockaddr_xia, each row its   *)
(*           s_xid: <<xid_type, xid_id>>                                   *)
(***************************************************************************)
XIDTYPE_NAT == "NAT"
Xid == {<<XIDTYPE_NAT, 0>>, <<"hid", 1>>, <<"hid", 2>>, <<"xdp", 1>>}
NoRows == [i \in 1..MaxRows |-> <<XIDTYPE_NAT, 0>>]

FlatAddr(len, port, pad) ==
  [family |-> "AF_INET", len |-> len, port |-> port, addr |-> 1, pad |-> pad,
   rows |-> NoRows]
XiaAddr(rows) ==
  [family |-> "AF_XIA", len |-> 0, port |-> 0, addr |-> 0, pad |-> 0,
   rows |-> rows]
OtherAddr ==
  [family |-> "AF_OTHER", len |-> 0, port |-> 0, addr |-> 0, pad |-> 0,
   rows |-> NoRows]

\* what recvfrom() stores in src: the kernel fills a whole sockaddr_in and
\* zeroes sin_zero; a sockaddr_xia may hold any rows
ReceivedAddrs ==
  {FlatAddr(SizeofSockaddrIn, p, 0) : p \in {1, 2}}
    \cup {XiaAddr(r) : r \in [1..MaxRows -> Xid]}
    \cup {OtherAddr}
\* what a caller may pass as expected_src, exp_src_len
ExpectedAddrs ==
  {FlatAddr(l, p, z) : l \in {8, SizeofSockaddrIn}, p \in {1, 2}, z \in {0, 1}}
    \cup {XiaAddr(r) : r \in [1..MaxRows -> Xid]}
    \cup {OtherAddr}

xia_is_nat(ty) == ty = XIDTYPE_NAT

\* count_rows: the index of the first row whose type is XIDTYPE_NAT
RECURSIVE count_rows_from(_, _)
count_rows_from(xia, i) ==
  IF i < MaxRows /\ ~xia_is_nat(xia.rows[i + 1][1])
    THEN count_rows_from(xia, i + 1)
    ELSE i
count_rows(xia) == count_rows_from(xia, 0)

\* memcmp(a, b, n) == 0 on two struct sockaddr_in: the fields that start
\* within the first n bytes agree
SinLayout ==
  <<[fld |-> "family", off |-> 0], [fld |-> "port", off |-> 2],
    [fld |-> "addr", off |-> 4], [fld |-> "pad", off |-> 8]>>
memcmp_sin(a, b, n) ==
  \A i \in 1..Len(SinLayout) :
    SinLayout[i].off < n => a[SinLayout[i].fld] = b[SinLayout[i].fld]

\* (faulty variant of match_inet: the lengths are not compared)
match_inet_nolen(addr, expected) ==
  IF memcmp_sin(addr, expected, addr.len) THEN "true" ELSE "false"
match_inet(addr, expected) ==
  IF addr.len = expected.len /\ memcmp_sin(addr, expected, addr.len)
    THEN "true" ELSE "false"

\* (faulty variant of match_xia: the first rows are compared, not the last)
match_xia_first(addr, expected) ==
  LET addr_n == count_rows(addr)
      exp_n == count_rows(expected)
  IN IF ~(addr_n > 0 /\ exp_n > 0) THEN "abort"
     ELSE IF addr.rows[1] = expected.rows[1] THEN "true" ELSE "false"
\* (faulty variant of match_xia: an address without rows matches nothing)
match_xia_noassert(addr, expected) ==
  LET addr_n == count_rows(addr)
      exp_n == count_rows(expected)
  IN IF ~(addr_n > 0 /\ exp_n > 0) THEN "false"
     ELSE IF addr.rows[addr_n] = expected.rows[exp_n] THEN "true" ELSE "false"
match_xia(addr, expected) ==
  LET addr_n == count_rows(addr)
      exp_n == count_rows(expected)
  IN IF ~(addr_n > 0 /\ exp_n > 0) THEN "abort"
     ELSE IF addr.rows[addr_n] = expected.rows[exp_n] THEN "true" ELSE "false"

\* address_match: "true" / "false" for the returned int, "abort" when an
\* assert fails
address_match(addr, expected) ==
  IF addr.family # expected.family THEN "abort"
  ELSE IF addr.family = "AF_INET" THEN match_inet(addr, expected)
  ELSE IF addr.family = "AF_XIA" THEN match_xia(addr, expected)
  ELSE "abort"

(***************************************************************************)
(* The transfer: datagram_process_file and stream_process_file.            *)
(***************************************************************************)
Min(a, b) == IF a < b THEN a ELSE b
Take(q, n) == SubSeq(q, 1, n)
Drop(q, n) == SubSeq(q, n + 1, Len(q))
RECURSIVE Flatten(_)
Flatten(qs) == IF qs = <<>> THEN <<>> ELSE Head(qs) \o Flatten(Tail(qs))

\* The source files: every length up to MaxFile.  No line of the code looks
\* at the value of a byte, so each byte is given its own value (its offset):
\* a byte that is lost, repeated or out of place then shows in the mirror.
Files == {[i \in 1..n |-> i] : n \in 0..MaxFile}
\* the example of the specification: 10 bytes, chunk size 4, interval 100
ExampleFile == [i \in 1..10 |-> i]
\* what the mirror file of an earlier run holds when this run starts
StaleCopy == <<0>>

\* the peer addresses of the transfers: one flat, one hierarchical
XiaRows(r1, r2, rest) ==
  [i \in 1..MaxRows |-> IF i = 1 THEN r1 ELSE IF i = 2 THEN r2 ELSE rest]
SrvFlat == FlatAddr(SizeofSockaddrIn, 1, 0)
SrvXia == XiaAddr(XiaRows(<<"hid", 1>>, <<"xdp", 1>>, <<XIDTYPE_NAT, 0>>))
SrvAddrs == {SrvFlat, SrvXia}
\* the source address the peer's replies carry: for the hierarchical peer
\* another path to the same last row
ReplySrc(a) ==
  IF a.family = "AF_INET" THEN a
  ELSE XiaAddr(XiaRows(<<"xdp", 1>>, <<XIDTYPE_NAT, 0>>, <<"hid", 2>>))
\* the source address of a datagram that is not the peer's
ForgedSrc(a) ==
  IF a.family = "AF_INET" THEN FlatAddr(SizeofSockaddrIn, 2, 0)
  ELSE XiaAddr(XiaRows(<<"hid", 1>>, <<"hid", 2>>, <<XIDTYPE_NAT, 0>>))

\* no call of address_match, no call of copy_data
MatchIdle == ma = OtherAddr /\ mb = OtherAddr /\ mres = "none" /\ mpc = "idle"
CopyIdle ==
  /\ cpc = "idle" /\ cfrom = <<>> /\ camount = 0 /\ cbuf = <<>>
  /\ cread = <<>> /\ cto = <<>>

Init ==
  /\ transport \in {"datagram", "stream"}
  /\ \/ /\ orig \in Files
        /\ chunk_size \in 1..MaxChunk
        /\ times \in 0..MaxTimes
     \/ /\ orig = ExampleFile
        /\ chunk_size = 4
        /\ times = 100
  /\ f \in BOOLEAN
  /\ srv \in IF transport = "datagram" THEN SrvAddrs ELSE {OtherAddr}
  /\ pc = "open" /\ pos = 0 /\ eof = FALSE
  /\ bytes_read = 0 /\ count = 0 /\ bytes_sent = 0
  /\ copy = StaleCopy
  /\ n_sent = 0 /\ out = <<>> /\ final = FALSE
  /\ rcvq = <<>> /\ peer_in = <<>> /\ forged = FALSE
  /\ echo = <<>> /\ closed = FALSE
  /\ since = <<>> /\ hooks = 0 /\ ckpts = <<>> /\ netlost = 0 /\ fatal = ""
  /\ MatchIdle
  /\ CopyIdle

\* the records of the receives made so far
Done == pc = "done"
Ckpt(i) == ckpts[i]
CkptIds == 1..Len(ckpts)
LastCkpt == ckpts[Len(ckpts)]

\* a failed assert, or exit(1)
Abort(why) == pc' = "aborted" /\ fatal' = why

\* the bytes of buf after the fread of this iteration
Chunk == SubSeq(orig, pos - bytes_read + 1, pos)

\* (faulty variant of Open: the mirror file opened without truncation)
Open_Append ==
  /\ pc = "open"
  /\ \/ /\ pc' = "fread"
        /\ UNCHANGED <<copy, fatal>>
     \/ /\ Abort("fopen")
        /\ UNCHANGED copy
  /\ UNCHANGED <<transport, orig, chunk_size, times, f, srv, pos, eof,
                 bytes_read, count, bytes_sent, n_sent, out, final>>
  /\ UNCHANGED <<nvars, since, hooks, ckpts, netlost, mvars, cvars>>

\* fopen(orig_name, "rb"), fopen_copy(orig_name, "wb"): "wb" truncates
Open ==
  /\ pc = "open"
  /\ \/ /\ copy' = <<>>
        /\ pc' = "fread"
        /\ UNCHANGED fatal
     \/ /\ Abort("fopen")
        /\ UNCHANGED copy
  /\ UNCHANGED <<transport, orig, chunk_size, times, f, srv, pos, eof,
                 bytes_read, count, bytes_sent, n_sent, out, final>>
  /\ UNCHANGED <<nvars, since, hooks, ckpts, netlost, mvars, cvars>>

\* bytes_read = fread(buf, 1, chunk_size, orig); assert(!ferror(orig))
Fread ==
  /\ pc = "fread"
  /\ \/ LET n == Min(chunk_size, Len(orig) - pos)
        IN /\ bytes_read' = n
           /\ pos' = pos + n
           /\ eof' = (eof \/ n < chunk_size)
           /\ pc' = "send"
           /\ UNCHANGED fatal
     \/ /\ Abort("ferror")
        /\ UNCHANGED <<bytes_read, pos, eof>>
  /\ UNCHANGED <<transport, orig, chunk_size, times, f, srv, count,
                 bytes_sent, copy, n_sent, out, final>>
  /\ UNCHANGED <<nvars, since, hooks, ckpts, netlost, mvars, cvars>>

\* (faulty variant of Counted: the chunk size is counted, not the bytes read)
Counted_ChunkSize ==
  /\ count' = count + 1
  /\ bytes_sent' = bytes_sent + chunk_size
  /\ since' = Append(since, Chunk)
  /\ pc' = "test"
  /\ UNCHANGED fatal

\* count++; bytes_sent += bytes_read
Counted ==
  /\ count' = count + 1
  /\ bytes_sent' = bytes_sent + bytes_read
  /\ since' = Append(since, Chunk)
  /\ pc' = "test"
  /\ UNCHANGED fatal

\* if (bytes_read > 0) { send_packet(...); count++; bytes_sent += ... }
\* sendto() hands the datagram to the network, which may lose it
DatagramSend ==
  /\ pc = "send" /\ transport = "datagram"
  /\ \/ /\ bytes_read > 0
        /\ Counted
        /\ \E arrives \in BOOLEAN :
             /\ peer_in' = IF arrives THEN peer_in \o Chunk ELSE peer_in
             /\ netlost' = IF arrives THEN netlost ELSE netlost + 1
     \/ /\ bytes_read > 0
        /\ Abort("sendto")
        /\ UNCHANGED <<count, bytes_sent, since, peer_in, netlost>>
     \/ /\ ~(bytes_read > 0)
        /\ pc' = "test"
        /\ UNCHANGED <<count, bytes_sent, since, peer_in, netlost, fatal>>
  /\ UNCHANGED <<transport, orig, chunk_size, times, f, srv, pos, eof,
                 bytes_read, copy, n_sent, out, final>>
  /\ UNCHANGED <<rcvq, forged, echo, closed, hooks, ckpts, mvars, cvars>>

\* if (bytes_read > 0) { assert(write(s, buf, bytes_read) == bytes_read); ...}
\* the peer echoes what it is sent for as long as it keeps the connection
StreamSend ==
  /\ pc = "send" /\ transport = "stream"
  /\ \/ /\ bytes_read > 0
        /\ Counted
        /\ echo' = IF closed THEN echo ELSE echo \o Chunk
     \/ /\ bytes_read > 0
        /\ Abort("write")
        /\ UNCHANGED <<count, bytes_sent, since, echo>>
     \/ /\ ~(bytes_read > 0)
        /\ pc' = "test"
        /\ UNCHANGED <<count, bytes_sent, since, echo, fatal>>
  /\ UNCHANGED <<transport, orig, chunk_size, times, f, srv, pos, eof,
                 bytes_read, copy, n_sent, out, final>>
  /\ UNCHANGED <<rcvq, peer_in, forged, closed, hooks, ckpts, netlost, mvars, cvars>>

\* (faulty variant of Test: the checkpoint comes one chunk late)
Test_OffByOne ==
  /\ pc = "test"
  /\ pc' = IF count = times + 1 THEN "hook" ELSE "while"
  /\ UNCHANGED <<transport, orig, chunk_size, times, f, srv, pos, eof,
                 bytes_read, count, bytes_sent, copy, n_sent, out, final>>
  /\ UNCHANGED <<nvars, hvars, mvars, cvars>>

\* if (count == times)
Test ==
  /\ pc = "test"
  /\ pc' = IF count = times THEN "hook" ELSE "while"
  /\ UNCHANGED <<transport, orig, chunk_size, times, f, srv, pos, eof,
                 bytes_read, count, bytes_sent, copy, n_sent, out, final>>
  /\ UNCHANGED <<nvars, hvars, mvars, cvars>>

\* if (f) f(s);
Hook ==
  /\ pc = "hook"
  /\ hooks' = IF f THEN hooks + 1 ELSE hooks
  /\ pc' = "recv"
  /\ UNCHANGED <<transport, orig, chunk_size, times, f, srv, pos, eof,
                 bytes_read, count, bytes_sent, copy, n_sent, out, final>>
  /\ UNCHANGED <<nvars, since, ckpts, netlost, fatal, mvars, cvars>>

\* (faulty variant of CallRecv: the size of the last chunk is passed)
CallRecv_LastChunk ==
  /\ pc = "recv"
  /\ n_sent' = bytes_read
  /\ out' = <<>>
  /\ pc' = IF transport = "datagram" THEN "select" ELSE "rw_loop"
  /\ ckpts' = Append(ckpts, [sent |-> Flatten(since), sends |-> Len(since),
                             chunks |-> since,
                             n_sent |-> bytes_read, final |-> final,
                             hooks |-> hooks, outcome |-> "pending",
                             got |-> <<>>, calls |-> 0])
  /\ UNCHANGED <<transport, orig, chunk_size, times, f, srv, pos, eof,
                 bytes_read, count, bytes_sent, copy, final>>
  /\ UNCHANGED <<nvars, since, hooks, netlost, fatal, mvars, cvars>>

\* the call recv_write(s, srv, srv_len, copy, bytes_sent), or
\* read_write(s, copy, bytes_sent)
CallRecv ==
  /\ pc = "recv"
  /\ n_sent' = bytes_sent
  /\ out' = <<>>
  /\ pc' = IF transport = "datagram" THEN "select" ELSE "rw_loop"
  /\ ckpts' = Append(ckpts, [sent |-> Flatten(since), sends |-> Len(since),
                             chunks |-> since,
                             n_sent |-> bytes_sent, final |-> final,
                             hooks |-> hooks, outcome |-> "pending",
                             got |-> <<>>, calls |-> 0])
  /\ UNCHANGED <<transport, orig, chunk_size, times, f, srv, pos, eof,
                 bytes_read, count, bytes_sent, copy, final>>
  /\ UNCHANGED <<nvars, since, hooks, netlost, fatal, mvars, cvars>>

\* the return of recv_write / read_write to process_file
Return(outcome, got, calls) ==
  /\ pc' = IF final THEN "close" ELSE "reset"
  /\ ckpts' = [ckpts EXCEPT ![Len(ckpts)].outcome = outcome,
                            ![Len(ckpts)].got = got,
                            ![Len(ckpts)].calls = calls]
  /\ since' = <<>>
  /\ hooks' = 0
  /\ UNCHANGED <<netlost, fatal>>

\* a fatal end inside recv_write
RecvAbort(why, calls) ==
  /\ Abort(why)
  /\ ckpts' = [ckpts EXCEPT ![Len(ckpts)].outcome = "fatal",
                            ![Len(ckpts)].calls = calls]
  /\ UNCHANGED <<since, hooks, netlost>>

\* (faulty variant of Select: the timeout treated as a fatal error)
Select_FatalTimeout ==
  /\ pc = "select"
  /\ \/ /\ rcvq = <<>>
        /\ RecvAbort("timeout", 0)
     \/ /\ rcvq # <<>>
        /\ pc' = "recvfrom"
        /\ UNCHANGED hvars
     \/ RecvAbort("select", 0)
  /\ UNCHANGED <<transport, orig, chunk_size, times, f, srv, pos, eof,
                 bytes_read, count, bytes_sent, copy, n_sent, out, final>>
  /\ UNCHANGED <<nvars, mvars, cvars>>

\* (faulty variant of Select: no timeout, select waits until readable)
Select_NoTimeout ==
  /\ pc = "select"
  /\ rcvq # <<>>
  /\ \/ /\ pc' = "recvfrom"
        /\ UNCHANGED hvars
     \/ RecvAbort("select", 0)
  /\ UNCHANGED <<transport, orig, chunk_size, times, f, srv, pos, eof,
                 bytes_read, count, bytes_sent, copy, n_sent, out, final>>
  /\ UNCHANGED <<nvars, mvars, cvars>>

\* recv_write: rc = select(...) with the 2 s timeout; assert(rc >= 0);
\* if (!rc) { fprintf(stderr, "."); return; }
Select ==
  /\ pc = "select"
  /\ \/ /\ rcvq = <<>>
        /\ Return("lost", <<>>, 0)
     \/ /\ rcvq # <<>>
        /\ pc' = "recvfrom"
        /\ UNCHANGED hvars
     \/ RecvAbort("select", 0)
  /\ UNCHANGED <<transport, orig, chunk_size, times, f, srv, pos, eof,
                 bytes_read, count, bytes_sent, copy, n_sent, out, final>>
  /\ UNCHANGED <<nvars, mvars, cvars>>

\* (faulty variant of Recvfrom: the whole datagram is written, whatever n_sent)
Recvfrom_NoTrunc ==
  /\ pc = "recvfrom"
  /\ rcvq # <<>>
  /\ \/ LET d == Head(rcvq)
            m == address_match(d.src, srv)
        IN /\ rcvq' = Tail(rcvq)
           /\ IF m = "true"
                THEN /\ copy' = copy \o d.data
                     /\ Return("ok", d.data, 1)
                ELSE /\ RecvAbort(IF m = "false" THEN "wrong_peer"
                                  ELSE "address_match", 1)
                     /\ UNCHANGED copy
     \/ /\ RecvAbort("recvfrom", 1)
        /\ UNCHANGED <<rcvq, copy>>
  /\ UNCHANGED <<transport, orig, chunk_size, times, f, srv, pos, eof,
                 bytes_read, count, bytes_sent, n_sent, out, final>>
  /\ UNCHANGED <<peer_in, forged, echo, closed, mvars, cvars>>

\* (faulty variant of Recvfrom: the sender is not checked before the write)
Recvfrom_NoCheck ==
  /\ pc = "recvfrom"
  /\ rcvq # <<>>
  /\ \/ LET d == Head(rcvq)
            data == Take(d.data, Min(Len(d.data), n_sent))
        IN /\ rcvq' = Tail(rcvq)
           /\ copy' = copy \o data
           /\ Return("ok", data, 1)
     \/ /\ RecvAbort("recvfrom", 1)
        /\ UNCHANGED <<rcvq, copy>>
  /\ UNCHANGED <<transport, orig, chunk_size, times, f, srv, pos, eof,
                 bytes_read, count, bytes_sent, n_sent, out, final>>
  /\ UNCHANGED <<peer_in, forged, echo, closed, mvars, cvars>>

\* recv_write: n_read = recvfrom(s, out, n_sent, ...); assert(n_read >= 0);
\* assert(address_match(&src, len, expected_src, exp_src_len));
\* fwrite(out, sizeof(char), n_read, copy);
\* a datagram longer than n_sent is cut to n_sent bytes
Recvfrom ==
  /\ pc = "recvfrom"
  /\ rcvq # <<>>
  /\ \/ LET d == Head(rcvq)
            data == Take(d.data, Min(Len(d.data), n_sent))
            m == address_match(d.src, srv)
        IN /\ rcvq' = Tail(rcvq)
           /\ IF m = "true"
                THEN /\ copy' = copy \o data
                     /\ Return("ok", data, 1)
                ELSE /\ RecvAbort(IF m = "false" THEN "wrong_peer"
                                  ELSE "address_match", 1)
                     /\ UNCHANGED copy
     \/ /\ RecvAbort("recvfrom", 1)
        /\ UNCHANGED <<rcvq, copy>>
  /\ UNCHANGED <<transport, orig, chunk_size, times, f, srv, pos, eof,
                 bytes_read, count, bytes_sent, n_sent, out, final>>
  /\ UNCHANGED <<peer_in, forged, echo, closed, mvars, cvars>>

\* (faulty variant of StreamRead: an aborted batch writes what it has accumulated)
StreamRead_PartialWrite ==
  /\ pc = "rw_loop"
  /\ n_sent > Len(out)
  /\ \/ /\ \E len \in 1..Min(n_sent - Len(out), Len(echo)) :
             /\ out' = out \o Take(echo, len)
             /\ echo' = Drop(echo, len)
             /\ ckpts' = [ckpts EXCEPT ![Len(ckpts)].calls = @ + 1]
             /\ UNCHANGED <<pc, since, hooks, netlost, fatal>>
        /\ UNCHANGED copy
     \/ /\ Return("lost", <<>>, ckpts[Len(ckpts)].calls + 1)
        /\ copy' = copy \o out
        /\ UNCHANGED <<out, echo>>
  /\ UNCHANGED <<transport, orig, chunk_size, times, f, srv, pos, eof,
                 bytes_read, count, bytes_sent, n_sent, final>>
  /\ UNCHANGED <<rcvq, peer_in, forged, closed, mvars, cvars>>

\* read_write: while (n_sent > n_read) { len = read(...);
\*   if (len <= 0) { fprintf(stderr, "."); return; }  n_read += len; }
\* read() gives 1..n_sent - n_read of the bytes that arrived, 0 once the peer
\* has closed and nothing is left, or -1 on an error
StreamRead ==
  /\ pc = "rw_loop"
  /\ n_sent > Len(out)
  /\ \/ \E len \in 1..Min(n_sent - Len(out), Len(echo)) :
          /\ out' = out \o Take(echo, len)
          /\ echo' = Drop(echo, len)
          /\ ckpts' = [ckpts EXCEPT ![Len(ckpts)].calls = @ + 1]
          /\ UNCHANGED <<pc, since, hooks, netlost, fatal>>
     \/ /\ closed /\ echo = <<>>
        /\ Return("lost", <<>>, ckpts[Len(ckpts)].calls + 1)
        /\ UNCHANGED <<out, echo>>
     \/ /\ Return("lost", <<>>, ckpts[Len(ckpts)].calls + 1)
        /\ UNCHANGED <<out, echo>>
  /\ UNCHANGED <<transport, orig, chunk_size, times, f, srv, pos, eof,
                 bytes_read, count, bytes_sent, copy, n_sent, final>>
  /\ UNCHANGED <<rcvq, peer_in, forged, closed, mvars, cvars>>

\* read_write: assert(n_read == n_sent); fwrite(out, sizeof(char), n_read, copy)
StreamWrite ==
  /\ pc = "rw_loop"
  /\ ~(n_sent > Len(out))
  /\ IF Len(out) = n_sent
       THEN /\ copy' = copy \o out
            /\ Return("ok", out, ckpts[Len(ckpts)].calls)
       ELSE /\ RecvAbort("n_read", ckpts[Len(ckpts)].calls)
            /\ UNCHANGED copy
  /\ UNCHANGED <<transport, orig, chunk_size, times, f, srv, pos, eof,
                 bytes_read, count, bytes_sent, n_sent, out, final>>
  /\ UNCHANGED <<nvars, mvars, cvars>>

\* (faulty variant of Reset: a lost checkpoint is read and sent again)
Reset_Rewind ==
  /\ pc = "reset"
  /\ count' = 0
  /\ bytes_sent' = 0
  /\ pc' = "while"
  /\ IF LastCkpt.outcome = "lost"
       THEN pos' = pos - n_sent /\ eof' = FALSE
       ELSE UNCHANGED <<pos, eof>>
  /\ UNCHANGED <<transport, orig, chunk_size, times, f, srv,
                 bytes_read, copy, n_sent, out, final>>
  /\ UNCHANGED <<nvars, hvars, mvars, cvars>>

\* (faulty variant of Reset: bytes_sent is not reset)
Reset_CountOnly ==
  /\ pc = "reset"
  /\ count' = 0
  /\ pc' = "while"
  /\ UNCHANGED <<transport, orig, chunk_size, times, f, srv, pos, eof,
                 bytes_read, bytes_sent, copy, n_sent, out, final>>
  /\ UNCHANGED <<nvars, hvars, mvars, cvars>>

\* count = bytes_sent = 0;
Reset ==
  /\ pc = "reset"
  /\ count' = 0
  /\ bytes_sent' = 0
  /\ pc' = "while"
  /\ UNCHANGED <<transport, orig, chunk_size, times, f, srv, pos, eof,
                 bytes_read, copy, n_sent, out, final>>
  /\ UNCHANGED <<nvars, hvars, mvars, cvars>>

\* (faulty variant of While: the loop ends on a read of zero bytes)
While_ByBytes ==
  /\ pc = "while"
  /\ pc' = IF bytes_read > 0 THEN "fread" ELSE "flush"
  /\ UNCHANGED <<transport, orig, chunk_size, times, f, srv, pos, eof,
                 bytes_read, count, bytes_sent, copy, n_sent, out, final>>
  /\ UNCHANGED <<nvars, hvars, mvars, cvars>>

\* } while (!feof(orig));
While ==
  /\ pc = "while"
  /\ pc' = IF ~eof THEN "fread" ELSE "flush"
  /\ UNCHANGED <<transport, orig, chunk_size, times, f, srv, pos, eof,
                 bytes_read, count, bytes_sent, copy, n_sent, out, final>>
  /\ UNCHANGED <<nvars, hvars, mvars, cvars>>

\* (faulty variant of Flush: a final receive whatever count)
Flush_Always ==
  /\ pc = "flush"
  /\ pc' = "hook" /\ final' = TRUE
  /\ UNCHANGED <<transport, orig, chunk_size, times, f, srv, pos, eof,
                 bytes_read, count, bytes_sent, copy, n_sent, out>>
  /\ UNCHANGED <<nvars, hvars, mvars, cvars>>

\* (faulty variant of Flush: no receive for the final partial batch)
Flush_NoFinal ==
  /\ pc = "flush"
  /\ pc' = "close"
  /\ UNCHANGED <<transport, orig, chunk_size, times, f, srv, pos, eof,
                 bytes_read, count, bytes_sent, copy, n_sent, out, final>>
  /\ UNCHANGED <<nvars, hvars, mvars, cvars>>

\* if (count) { if (f) f(s); recv_write / read_write(..., bytes_sent); }
Flush ==
  /\ pc = "flush"
  /\ IF count # 0
       THEN pc' = "hook" /\ final' = TRUE
       ELSE pc' = "close" /\ UNCHANGED final
  /\ UNCHANGED <<transport, orig, chunk_size, times, f, srv, pos, eof,
                 bytes_read, count, bytes_sent, copy, n_sent, out>>
  /\ UNCHANGED <<nvars, hvars, mvars, cvars>>

\* assert(!fclose(copy)); assert(!fclose(orig));
Close ==
  /\ pc = "close"
  /\ \/ pc' = "done" /\ UNCHANGED fatal
     \/ Abort("fclose")
  /\ UNCHANGED <<transport, orig, chunk_size, times, f, srv, pos, eof,
                 bytes_read, count, bytes_sent, copy, n_sent, out, final>>
  /\ UNCHANGED <<nvars, since, hooks, ckpts, netlost, mvars, cvars>>

Running == pc \notin {"idle", "done", "aborted"}

\* the datagram peer echoes, in one datagram, the bytes it has received
\* since its last echo
PeerEcho ==
  /\ Running /\ transport = "datagram"
  /\ peer_in # <<>>
  /\ rcvq' = Append(rcvq, [src |-> ReplySrc(srv), data |-> peer_in])
  /\ peer_in' = <<>>
  /\ UNCHANGED <<tvars, forged, echo, closed, hvars, mvars, cvars>>

\* a datagram of another sender reaches the socket
Forge ==
  /\ Running /\ transport = "datagram"
  /\ ~forged
  /\ rcvq' = Append(rcvq, [src |-> ForgedSrc(srv), data |-> <<0>>])
  /\ forged' = TRUE
  /\ UNCHANGED <<tvars, peer_in, echo, closed, hvars, mvars, cvars>>

\* the stream peer closes the connection; echoed bytes still on their way
\* may be lost with it
PeerClose ==
  /\ Running /\ transport = "stream"
  /\ ~closed
  /\ closed' = TRUE
  /\ \E k \in 0..Len(echo) : echo' = Take(echo, k)
  /\ UNCHANGED <<tvars, rcvq, peer_in, forged, hvars, mvars, cvars>>

Next ==
  \/ Open \/ Fread \/ DatagramSend \/ StreamSend \/ Test \/ Hook
  \/ CallRecv \/ Select \/ Recvfrom \/ StreamRead \/ StreamWrite
  \/ Reset \/ While \/ Flush \/ Close
  \/ PeerEcho \/ Forge \/ PeerClose

Spec == Init /\ [][Next]_vars

(***************************************************************************)
(* Properties of the transfer (checked under Spec).                        *)
(***************************************************************************)
RECURSIVE SumNSent(_)
SumNSent(ids) ==
  IF ids = {} THEN 0
  ELSE LET i == CHOOSE j \in ids : TRUE
       IN Ckpt(i).n_sent + SumNSent(ids \ {i})
\* every receive succeeded and returned all the bytes sent since the last
\* checkpoint
AllEchoed ==
  \A i \in CkptIds : Ckpt(i).outcome = "ok" /\ Ckpt(i).got = Ckpt(i).sent

\* C1: when a transfer (datagram or stream) completes and every checkpoint's
\* receive succeeded with all the bytes sent since the last checkpoint, the
\* mirror file is byte-identical to the source file.
C1_RoundTrip == (Done /\ AllEchoed) => copy = orig

\* C1 witness: a completed datagram transfer of several checkpoints, one of
\* them of two chunks, every one echoed in full.
C1_Witness ==
  /\ Done /\ AllEchoed /\ transport = "datagram"
  /\ Len(ckpts) >= 2 /\ Ckpt(1).sends = 2 /\ Len(orig) >= 3

\* C2 as claimed, for the datagram transfer on a network that loses no
\* datagram and delivers none of another sender: when exactly one
\* checkpoint's receive timed out and every other one succeeded, the final
\* mirror file is the concatenation, in order, of the bytes of the other
\* checkpoints (a late reply to the lost checkpoint is never written in place
\* of a later checkpoint's bytes).
LostIds == {i \in CkptIds : Ckpt(i).outcome = "lost"}
OthersOk == \A i \in CkptIds \ LostIds : Ckpt(i).outcome = "ok"
BytesOfOthers ==
  Flatten([i \in CkptIds |->
             IF Ckpt(i).outcome = "ok" THEN Ckpt(i).sent ELSE <<>>])
C2_AsClaimed ==
  (/\ Done /\ transport = "datagram"
   /\ netlost = 0 /\ ~forged
   /\ Cardinality(LostIds) = 1 /\ OthersOk)
    => copy = BytesOfOthers

\* C3: once the loop has ended (the files are about to be, or have been,
\* closed): if bytes sent since the last checkpoint were still unacknowledged
\* when the source file was exhausted, exactly one further receive was made,
\* it is the last one, its expected byte count is the remainder, it covers
\* the last bytes of the file, and the hook (if supplied) ran once before it;
\* otherwise no further receive was made.  The 10-byte file with chunk size 4
\* and checkpoint interval 100 yields exactly one checkpoint, of 10 bytes.
FinalIds == {i \in CkptIds : Ckpt(i).final}
Remainder == Len(orig) - SumNSent(CkptIds \ FinalIds)
C3_FinalFlush ==
  pc \in {"close", "done"}
    => /\ IF Remainder > 0
            THEN /\ FinalIds = {Len(ckpts)}
                 /\ LastCkpt.n_sent = Remainder
                 /\ LastCkpt.sent = Drop(orig, Len(orig) - Remainder)
                 /\ LastCkpt.hooks = (IF f THEN 1 ELSE 0)
                 /\ LastCkpt.outcome # "pending"
            ELSE FinalIds = {}
       /\ (orig = ExampleFile /\ chunk_size = 4 /\ times = 100)
            => (Len(ckpts) = 1 /\ Ckpt(1).n_sent = 10)

\* C3 witness: the example has completed with its single checkpoint of 10
\* bytes, made after the loop.
C3_Witness ==
  /\ Done /\ orig = ExampleFile /\ chunk_size = 4 /\ times = 100
  /\ Len(ckpts) = 1 /\ Ckpt(1).final /\ Ckpt(1).n_sent = 10
  /\ Ckpt(1).sends = 3

\* C4: in recv_write, when the datagram at the head of the queue is not from
\* the peer, the only step the process can take ends it, and writes nothing
\* to the mirror file; once the process has ended, nothing is sent, received
\* or written any more.
WrongPeerAtHead ==
  pc = "recvfrom" /\ rcvq # <<>> /\ Head(rcvq).src = ForgedSrc(srv)
C4_WrongPeerFatal ==
  [][/\ WrongPeerAtHead => (copy' = copy /\ pc' \in {"recvfrom", "aborted"})
     /\ pc = "aborted" => (/\ pc' = "aborted" /\ copy' = copy
                           /\ since' = since /\ ckpts' = ckpts
                           /\ rcvq' = rcvq /\ echo' = echo)]_vars

\* C4 witness: the process has ended on a datagram of another sender, after
\* an earlier checkpoint had been written; the datagram was taken off the
\* queue and the mirror file holds the earlier checkpoint only.
C4_Witness ==
  /\ pc = "aborted" /\ fatal = "wrong_peer"
  /\ Len(ckpts) = 2 /\ Ckpt(1).outcome = "ok" /\ Ckpt(2).outcome = "fatal"
  /\ copy = Ckpt(1).got /\ copy # <<>>

\* C5: when select() times out with nothing readable, recv_write makes no
\* receive call, leaves the mirror file and the socket's queue as they are,
\* does not end the process and returns: inside the loop to the reset of the
\* counters (and from there to the next chunk), after the loop to the close.
TimeoutStep ==
  pc = "select" /\ rcvq = <<>> /\ pc' # pc /\ fatal' # "select"
C5_TimeoutTolerated ==
  [][TimeoutStep
       => /\ copy' = copy /\ rcvq' = rcvq
          /\ pc' = (IF final THEN "close" ELSE "reset")
          /\ fatal' = ""
          /\ ckpts'[Len(ckpts)].outcome = "lost"
          /\ ckpts'[Len(ckpts)].calls = 0]_vars

\* C5 witness: after a timeout at the first checkpoint the transfer is
\* sending the next chunk, the mirror file still empty.
C5_Witness ==
  /\ transport = "datagram" /\ pc = "send" /\ bytes_read > 0
  /\ Len(ckpts) = 1 /\ Ckpt(1).outcome = "lost" /\ Ckpt(1).calls = 0
  /\ copy = <<>>

\* C6: in the stream transfer, after the files are open the mirror file
\* changes only by read_write appending, in one write, the n_sent bytes it
\* has accumulated; a read that returns zero or less before that aborts the
\* batch: the process goes on, and nothing is written, the bytes accumulated
\* so far included.
ReadFailedStep == pc = "rw_loop" /\ n_sent > Len(out) /\ pc' # pc
C6_StreamAllOrNothing ==
  [][transport = "stream"
       => /\ (copy' # copy /\ pc # "open")
               => /\ pc = "rw_loop" /\ Len(out) = n_sent
                  /\ copy' = copy \o out
                  /\ ckpts'[Len(ckpts)].outcome = "ok"
          /\ ReadFailedStep
               => /\ copy' = copy
                  /\ pc' = (IF final THEN "close" ELSE "reset")
                  /\ fatal' = ""
                  /\ ckpts'[Len(ckpts)].outcome = "lost"]_vars

\* C6 witness: a batch of two bytes was aborted after one byte had been
\* accumulated, and the mirror file was left empty.
C6_Witness ==
  /\ transport = "stream" /\ pc = "reset"
  /\ n_sent = 2 /\ Len(out) = 1
  /\ LastCkpt.outcome = "lost" /\ LastCkpt.calls = 2
  /\ copy = <<>>

\* C10 as claimed: at every point but the one between a receive's return and
\* the statement that follows it, bytes_sent is the sum of the lengths of
\* the sends made since the last receive, and count their number (so both
\* are zero after every receive).
SumLen(qs) == Len(Flatten(qs))
CountersMatch == bytes_sent = SumLen(since) /\ count = Len(since)
C10_AsClaimed == pc # "reset" => CountersMatch

\* C10 amended: the same, except that the receive of the final partial batch
\* (the one after the loop) is not followed by a reset: from its return on,
\* count and bytes_sent keep the values of the final batch.  The counters
\* change only by a send (count by one, bytes_sent by the length sent) and by
\* the reset, which follows every return of a receive made inside the loop,
\* whether it succeeded or was reported lost.
AfterFinalRecv ==
  final /\ ckpts # <<>> /\ LastCkpt.final /\ LastCkpt.outcome # "pending"
CountersOk ==
  IF AfterFinalRecv
    THEN bytes_sent = LastCkpt.n_sent /\ count = LastCkpt.sends
    ELSE pc # "reset" => CountersMatch
RecvReturns ==
  /\ pc \in {"select", "recvfrom", "rw_loop"}
  /\ ckpts'[Len(ckpts)].outcome \in {"ok", "lost"}
  /\ LastCkpt.outcome = "pending"
C10_Counters ==
  [][/\ CountersOk /\ CountersOk'
     /\ (count' # count \/ bytes_sent' # bytes_sent)
          => \/ /\ pc = "send" /\ count' = count + 1
                /\ bytes_sent' = bytes_sent + bytes_read
                /\ since' = Append(since, Chunk)
             \/ /\ pc = "reset" /\ count' = 0 /\ bytes_sent' = 0
     /\ (RecvReturns /\ ~final) => pc' = "reset"
     /\ pc = "reset" => (pc' # pc => (count' = 0 /\ bytes_sent' = 0))]_vars

\* C10 witness: the counters have been reset after a lost receive, and a
\* later checkpoint has one chunk counted.
C10_Witness ==
  /\ pc = "test" /\ count = 1 /\ bytes_sent > 0
  /\ Len(ckpts) = 1 /\ Ckpt(1).outcome = "lost" /\ Ckpt(1).sends = 2

InReceive == pc \in {"recv", "select", "recvfrom", "rw_loop"}
MirrorOpened == pc \notin {"idle", "open"} /\ fatal # "fopen"
GotOfOk ==
  Flatten([i \in CkptIds |->
             IF Ckpt(i).outcome = "ok" THEN Ckpt(i).got ELSE <<>>])

\* C11: once the mirror file has been created, its content is at every
\* moment the concatenation, in checkpoint order, of the bytes returned by
\* the receives that succeeded so far; a lost or an aborted checkpoint
\* contributes nothing, and nothing else writes, truncates or reorders it.
C11_MirrorContent == MirrorOpened => copy = GotOfOk
C11_Witness ==
  /\ Len(ckpts) = 3 /\ Ckpt(1).outcome = "ok" /\ Ckpt(2).outcome = "lost"
  /\ Ckpt(3).outcome = "ok" /\ Ckpt(3).got # <<>>
  /\ copy = Ckpt(1).got \o Ckpt(3).got

\* the payloads and the checkpoints as the inputs alone determine them
RECURSIVE ChunksOf(_, _)
ChunksOf(q, c) ==
  IF q = <<>> THEN <<>>
  ELSE <<Take(q, Min(c, Len(q)))>> \o ChunksOf(Drop(q, Min(c, Len(q))), c)
RECURSIVE GroupsOf(_, _)
GroupsOf(qs, t) ==
  IF qs = <<>> THEN <<>>
  ELSE <<Take(qs, Min(t, Len(qs)))>> \o GroupsOf(Drop(qs, Min(t, Len(qs))), t)
ExpectedCkpts(file, c, t) ==
  IF t = 0 THEN <<ChunksOf(file, c)>> ELSE GroupsOf(ChunksOf(file, c), t)
SendsOfRun == [i \in CkptIds |-> Ckpt(i).chunks]

\* C12: a completed run in which nothing was lost is a function of its
\* inputs: the payloads sent, their grouping into checkpoints and the final
\* mirror content are those computed from the source file, the chunk size
\* and the interval alone, so two such runs on the same inputs agree.
C12_SameInputsSameRun ==
  (Done /\ AllEchoed) =>
    /\ SendsOfRun = ExpectedCkpts(orig, chunk_size, times)
    /\ \A i \in CkptIds : Ckpt(i).n_sent = SumLen(Ckpt(i).chunks)
    /\ copy = Flatten(Flatten(ExpectedCkpts(orig, chunk_size, times)))
C12_Witness ==
  /\ Done /\ AllEchoed /\ Len(orig) = 3 /\ chunk_size = 1 /\ times = 2
  /\ Len(ckpts) = 2 /\ Ckpt(1).sends = 2 /\ Ckpt(2).sends = 1

\* C13: a receive is begun only after the sends of its checkpoint, exactly
\* when the count of sends reaches the interval or, after the loop, when a
\* partial batch is pending; it expects the bytes sent since the last
\* checkpoint; the hook, when there is one, is called exactly once, just
\* before the receive, and at no other time; without a hook the receive
\* still happens; nothing is sent while a receive is under way.
C13_CheckpointOrdering ==
  [][ /\ (pc = "test" /\ pc' # pc) =>
           pc' = IF count = times THEN "hook" ELSE "while"
      /\ (pc = "flush" /\ pc' # pc) =>
           pc' = IF count # 0 THEN "hook" ELSE "close"
      /\ (pc' = "hook" /\ pc # "hook") => pc \in {"test", "flush"}
      /\ (pc = "hook" /\ pc' # pc) =>
           /\ pc' = "recv"
           /\ hooks = 0
           /\ hooks' = IF f THEN 1 ELSE 0
      /\ (pc' = "recv" /\ pc # "recv") => pc = "hook"
      /\ (pc = "recv" /\ pc' # pc) =>
           /\ pc' \in {"select", "rw_loop"}
           /\ Len(since) = count
           /\ bytes_sent = SumLen(since)
           /\ n_sent' = bytes_sent
           /\ Len(ckpts') = Len(ckpts) + 1
           /\ ckpts'[Len(ckpts')].n_sent = SumLen(since)
           /\ ckpts'[Len(ckpts')].hooks = (IF f THEN 1 ELSE 0)
      /\ Len(ckpts') # Len(ckpts) => pc = "recv"
      /\ hooks' # hooks => (pc = "hook" \/ (hooks' = 0 /\ RecvReturns))
      /\ (pc = "hook" \/ InReceive) =>
           (since' = since \/ (since' = <<>> /\ RecvReturns))
    ]_vars
C13_Witness ==
  /\ Done /\ f /\ times = 2 /\ Len(ckpts) = 2
  /\ Ckpt(1).sends = 2 /\ Ckpt(1).hooks = 1 /\ ~Ckpt(1).final
  /\ Ckpt(2).sends = 1 /\ Ckpt(2).hooks = 1 /\ Ckpt(2).final

\* the payloads handed to the transport so far, in the order of the sends
PayloadsSent ==
  Flatten([i \in CkptIds |->
             IF Ckpt(i).outcome \in {"ok", "lost"} THEN Ckpt(i).chunks
             ELSE <<>>]) \o since
Unsent ==
  IF pc = "send" \/ fatal \in {"sendto", "write"}
    THEN bytes_read ELSE 0

\* C14: every chunk read from the source is sent once, in file order, and
\* never again: the payloads sent so far, concatenated, are the part of the
\* source read so far, whatever became of the checkpoints; after a
\* completed transfer they are the source, byte for byte.
C14_EachChunkOnce ==
  /\ Flatten(PayloadsSent) = Take(orig, pos - Unsent)
  /\ \A i \in 1..Len(PayloadsSent) :
       Len(PayloadsSent[i]) \in 1..chunk_size
  /\ Done => Flatten(PayloadsSent) = orig
C14_Witness ==
  /\ Done /\ Len(orig) = 3 /\ chunk_size = 1 /\ times = 1
  /\ Len(ckpts) = 3 /\ Ckpt(1).outcome = "lost" /\ Ckpt(2).outcome = "lost"
  /\ Len(PayloadsSent) = 3

\* C15: a read of zero bytes sends nothing and leaves the chunk count and
\* the byte count as they were; whether the loop goes on is decided by the
\* end-of-file flag of the source alone.
C15_ZeroByteRead ==
  [][ /\ (pc = "send" /\ bytes_read = 0 /\ pc' # pc) =>
           /\ pc' = "test"
           /\ UNCHANGED <<count, bytes_sent, since, peer_in, echo, netlost,
                          fatal>>
      /\ (pc = "while" /\ pc' # pc) =>
           pc' = IF eof THEN "flush" ELSE "fread"
    ]_vars
C15_Witness ==
  /\ pc = "flush" /\ bytes_read = 0 /\ eof /\ count = 0
  /\ Len(orig) = 2 /\ chunk_size = 2 /\ Len(ckpts) = 1

\* C16: in datagram mode a checkpoint makes at most one receive call, sized
\* to the bytes expected; when the sender matches, the bytes that call
\* returned (the head datagram cut to the expected size, possibly shorter)
\* are appended to the mirror and the checkpoint is over: there is no second
\* call for the rest.
C16_DatagramGranularity ==
  [][ transport = "datagram" =>
        /\ \A i \in CkptIds : Ckpt(i).calls <= 1
        /\ pc = "recvfrom" => n_sent = Len(LastCkpt.sent)
        /\ (pc = "recvfrom" /\ pc' # pc /\ fatal' = "") =>
             LET d == Head(rcvq).data
                 r == Take(d, Min(Len(d), n_sent))
             IN /\ rcvq' = Tail(rcvq)
                /\ copy' = copy \o r
                /\ ckpts'[Len(ckpts)].got = r
                /\ ckpts'[Len(ckpts)].calls = 1
                /\ ckpts'[Len(ckpts)].outcome = "ok"
                /\ pc' \in {"reset", "close"}
    ]_vars
C16_Witness ==
  /\ transport = "datagram" /\ pc = "reset" /\ LastCkpt.outcome = "ok"
  /\ LastCkpt.calls = 1 /\ LastCkpt.got # <<>>
  /\ Len(LastCkpt.got) < LastCkpt.n_sent

\* C19: after a completed transfer with an interval of at least one, the
\* expected byte counts of all the receives add up to the size of the source
\* file, and the bytes the receives stood for are the file, each byte under
\* exactly one checkpoint.
C19_CheckpointsCoverFile ==
  (Done /\ times >= 1) =>
    /\ SumNSent(CkptIds) = Len(orig)
    /\ \A i \in CkptIds : Ckpt(i).n_sent = Len(Ckpt(i).sent)
    /\ Flatten([i \in CkptIds |-> Ckpt(i).sent]) = orig
C19_Witness ==
  /\ Done /\ times = 2 /\ chunk_size = 1 /\ Len(orig) = 3
  /\ Len(ckpts) = 2 /\ Ckpt(1).n_sent = 2 /\ Ckpt(2).n_sent = 1
  /\ Ckpt(1).outcome = "lost"

ExactMultiple == Len(orig) % (chunk_size * times) = 0

\* C20: with a chunk size and an interval of at least one, no receive is
\* made with zero bytes expected; when the file is an exact multiple of a
\* batch the closing read of zero bytes brings no further receive; an empty
\* file brings no send, no hook call and no receive.
C20_NoEmptyCheckpoint ==
  (times >= 1 /\ transport # "none") =>
    /\ \A i \in CkptIds : Ckpt(i).n_sent > 0 /\ Ckpt(i).sends > 0
    /\ InReceive => bytes_sent > 0
    /\ (ExactMultiple /\ pc \in {"close", "done"}) =>
         /\ FinalIds = {}
         /\ Len(ckpts) = Len(orig) \div (chunk_size * times)
    /\ Len(orig) = 0 =>
         /\ ckpts = <<>> /\ since = <<>> /\ hooks = 0
         /\ pc # "hook" /\ ~InReceive
         /\ peer_in = <<>> /\ echo = <<>>
C20_Witness ==
  /\ Done /\ Len(orig) = 4 /\ chunk_size = 2 /\ times = 2
  /\ bytes_read = 0 /\ Len(ckpts) = 1 /\ ~Ckpt(1).final

(***************************************************************************)
(* The datagram transfer alone, with a process that keeps running: every   *)
(* call of datagram_process_file returns (fread and sendto do not block,   *)
(* select returns after its timeout at the latest, recvfrom is called only *)
(* on a readable socket), so a step of the process that is possible is     *)
(* eventually taken.  Nothing is assumed of the peer or of the network.    *)
(***************************************************************************)
DatagramInit == Init /\ transport = "datagram"
ProcessStep ==
  \/ Open \/ Fread \/ DatagramSend \/ Test \/ Hook \/ CallRecv
  \/ Select \/ Recvfrom \/ Reset \/ While \/ Flush \/ Close
DatagramNext == ProcessStep \/ PeerEcho \/ Forge
FairDatagram ==
  DatagramInit /\ [][DatagramNext]_vars /\ WF_vars(ProcessStep)

Stopped == pc \in {"done", "aborted"}

\* C17: a datagram transfer of a finite file with a chunk size of at least
\* one eventually completes or stops fatally, whatever the interval and even
\* when no reply ever comes: a receive waits for the timeout at most and
\* then reports the loss.
C17_NeverStuck == <>Stopped
C17_Witness ==
  /\ transport = "datagram" /\ Done /\ ~forged /\ rcvq = <<>>
  /\ Len(orig) = 3 /\ chunk_size = 1 /\ times = 1 /\ Len(ckpts) = 3
  /\ \A i \in CkptIds : Ckpt(i).outcome = "lost" /\ Ckpt(i).calls = 0

(***************************************************************************)
(* A single call of address_match, on any received and any expected        *)
(* address.                                                                *)
(***************************************************************************)
TransferIdle ==
  /\ transport = "none" /\ orig = <<>> /\ chunk_size = 1 /\ times = 1
  /\ f = FALSE /\ srv = OtherAddr /\ pc = "idle" /\ pos = 0 /\ eof = FALSE
  /\ bytes_read = 0 /\ count = 0 /\ bytes_sent = 0 /\ copy = <<>>
  /\ n_sent = 0 /\ out = <<>> /\ final = FALSE
  /\ rcvq = <<>> /\ peer_in = <<>> /\ forged = FALSE /\ echo = <<>>
  /\ closed = FALSE
  /\ since = <<>> /\ hooks = 0 /\ ckpts = <<>> /\ netlost = 0 /\ fatal = ""

MatchInit ==
  /\ TransferIdle
  /\ CopyIdle
  /\ ma \in ReceivedAddrs
  /\ mb \in ExpectedAddrs
  /\ mres = "none"
  /\ mpc = "call"

\* the call address_match(ma, ma.len, mb, mb.len)
MatchCall ==
  /\ mpc = "call"
  /\ mres' = address_match(ma, mb)
  /\ mpc' = IF mres' = "abort" THEN "aborted" ELSE "returned"
  /\ UNCHANGED <<ma, mb, tvars, nvars, hvars, cvars>>

MatchNext == MatchCall

SpecMatch == MatchInit /\ [][MatchNext]_vars

(***************************************************************************)
(* Properties of address_match (checked under SpecMatch).                  *)
(***************************************************************************)
\* the effective length of a hierarchical address: the number of rows
\* before the first sentinel (not-a-type) row
EffRows(a) ==
  CHOOSE n \in 0..MaxRows :
    /\ \A i \in 1..n : a.rows[i][1] # XIDTYPE_NAT
    /\ n < MaxRows => a.rows[n + 1][1] = XIDTYPE_NAT
LastXid(a) == a.rows[EffRows(a)]
IsXia(a) == a.family = "AF_XIA"
IsFlat(a) == a.family = "AF_INET"
\* an address address_match can compare with itself
Comparable(a) == IsFlat(a) \/ (IsXia(a) /\ EffRows(a) > 0)
MatchCalled == mpc # "call"

\* C7: for two hierarchical addresses with at least one effective row each,
\* address_match returns, and returns true exactly when the entry
\* identifiers of their last effective rows are equal (whatever the rows
\* before them, the effective lengths, and the rows after the sentinel).
C7_SuffixOnlyMatch ==
  (MatchCalled /\ IsXia(ma) /\ IsXia(mb) /\ EffRows(ma) > 0 /\ EffRows(mb) > 0)
    => /\ mpc = "returned"
       /\ (mres = "true") <=> (LastXid(ma) = LastXid(mb))

\* C7 witness: a match of two addresses of different effective lengths that
\* differ in their first row and after the sentinel.
C7_Witness ==
  /\ mpc = "returned" /\ mres = "true" /\ IsXia(ma) /\ IsXia(mb)
  /\ EffRows(ma) = 1 /\ EffRows(mb) = 2
  /\ ma.rows[1] # mb.rows[1]
  /\ ma.rows[MaxRows] # mb.rows[MaxRows]

\* C8 as claimed: matches(A, A) is true for every address value A,
\* matches(A, B) = matches(B, A), and for flat addresses matches is equality
\* of the whole structure and of the length.
C8_AsClaimed ==
  MatchCalled
    => /\ (ma = mb => mres = "true")
       /\ address_match(mb, ma) = mres
       /\ (IsFlat(ma) /\ IsFlat(mb)) => ((mres = "true") <=> (ma = mb))

\* C8 amended: matches(A, A) is true for every flat address and every
\* hierarchical address with at least one effective row (for the others the
\* call ends the process); the outcome of matches(A, B) is that of
\* matches(B, A); for flat addresses matches is equality of the whole
\* structure and of the length.
C8_ReflexiveSymmetric ==
  MatchCalled
    => /\ ((ma = mb /\ Comparable(ma)) => mres = "true")
       /\ ((ma = mb /\ ~Comparable(ma)) => mres = "abort")
       /\ address_match(mb, ma) = mres
       /\ (IsFlat(ma) /\ IsFlat(mb)) => ((mres = "true") <=> (ma = mb))

\* C8 witness: a flat address compared with itself, and found to match.
C8_Witness ==
  mpc = "returned" /\ ma = mb /\ IsFlat(ma) /\ mres = "true"

\* C9: a call with two different family tags, with an unknown family, or
\* with a hierarchical address of zero effective rows ends the process: it
\* returns neither true nor false.
IllegalCall ==
  \/ ma.family # mb.family
  \/ ma.family \notin {"AF_INET", "AF_XIA"}
  \/ IsXia(ma) /\ EffRows(ma) = 0
  \/ IsXia(mb) /\ EffRows(mb) = 0
C9_IllegalCallIsFatal ==
  (MatchCalled /\ IllegalCall) => (mpc = "aborted" /\ mres = "abort")

\* C9 witness: the call was made with a zero-row hierarchical address
\* against a well-formed one, and ended the process.
C9_Witness ==
  /\ mpc = "aborted" /\ IsXia(ma) /\ IsXia(mb)
  /\ EffRows(ma) > 0 /\ EffRows(mb) = 0

(***************************************************************************)
(* copy_data(from, to): a single call, on any input of up to MaxCopy       *)
(* bytes.  The bytes of the input are their offsets.                       *)
(***************************************************************************)
CopySources == {[i \in 1..n |-> i] : n \in 0..MaxCopy}

CopyInit ==
  /\ TransferIdle
  /\ MatchIdle
  /\ cfrom \in CopySources
  /\ cpc = "read"
  /\ camount = 0 /\ cbuf = <<>> /\ cread = <<>> /\ cto = <<>>

\* amount = read(from, buf, sizeof(buf)): some of the bytes that have
\* arrived, 0 at the end of the input, -1 on an error
CopyRead ==
  /\ cpc = "read"
  /\ \/ \E k \in 1..Min(CopyBuf, Len(cfrom)) :
          /\ camount' = k
          /\ cbuf' = Take(cfrom, k)
          /\ cfrom' = Drop(cfrom, k)
          /\ cread' = cread \o Take(cfrom, k)
          /\ cpc' = "write"
     \/ /\ cfrom = <<>>
        /\ camount' = 0
        /\ cpc' = "check"
        /\ UNCHANGED <<cbuf, cfrom, cread>>
     \/ /\ camount' = -1
        /\ cpc' = "check"
        /\ UNCHANGED <<cbuf, cfrom, cread>>
  /\ UNCHANGED <<cto, tvars, nvars, hvars, mvars>>

\* (faulty variant of CopyWrite: the value write() returns is not looked at)
CopyWrite_Unchecked ==
  /\ cpc = "write"
  /\ \E j \in 0..camount :
       /\ cto' = cto \o Take(cbuf, j)
       /\ cpc' = "read"
  /\ UNCHANGED <<cfrom, camount, cbuf, cread, tvars, nvars, hvars, mvars>>

\* assert(write(to, buf, amount) == amount): write() takes all the bytes, or
\* fewer (none on an error), and then the assert ends the process
CopyWrite ==
  /\ cpc = "write"
  /\ \E j \in 0..camount :
       /\ cto' = cto \o Take(cbuf, j)
       /\ cpc' = IF j = camount THEN "read" ELSE "aborted"
  /\ UNCHANGED <<cfrom, camount, cbuf, cread, tvars, nvars, hvars, mvars>>

\* the end of the loop (amount <= 0), then assert(amount >= 0)
CopyCheck ==
  /\ cpc = "check"
  /\ cpc' = IF camount >= 0 THEN "returned" ELSE "aborted"
  /\ UNCHANGED <<cfrom, camount, cbuf, cread, cto, tvars, nvars, hvars, mvars>>

CopyNext == CopyRead \/ CopyWrite \/ CopyCheck

SpecCopy == CopyInit /\ [][CopyNext]_vars

(***************************************************************************)
(* Properties of copy_data (checked under SpecCopy).                       *)
(***************************************************************************)
IsPrefix(p, q) == Len(p) <= Len(q) /\ p = Take(q, Len(p))
\* the reads return the bytes of the input in order, each once
ReadInOrder == \A i \in 1..Len(cread \o cfrom) : (cread \o cfrom)[i] = i

\* C18: what copy_data has written is at every point a prefix of what its
\* reads have returned, and is all of it whenever a write has completed; the
\* call returns only after a read has returned zero, everything read being
\* written; a read error, or a write that takes fewer bytes than were read,
\* ends the process.
C18_PipeCopy ==
  /\ ReadInOrder
  /\ IsPrefix(cto, cread)
  /\ cpc \in {"read", "check", "returned"} => cto = cread
  /\ cpc = "returned" => (camount = 0 /\ cfrom = <<>>)
  /\ (cpc \in {"check", "returned", "aborted"} /\ camount < 0)
       => cpc # "returned"
  /\ (cpc # "write" /\ cto # cread) => cpc = "aborted"
  /\ cpc = "aborted" => (camount < 0 \/ cto # cread)

\* C18 witness: the call has returned after three reads or more, with the
\* whole input of MaxCopy bytes written.
C18_Witness ==
  cpc = "returned" /\ Len(cto) = MaxCopy /\ cto = cread /\ cfrom = <<>>

====
